---- MODULE Spec2Model ----
(* A model of the prolly-tree core: the cursor (src/src/cursor.ts), the      *)
(* mutation engine (src/src/builder.ts) and the entry points search, mutate  *)
(* and cloneTree.  Tuples are the integers 1..MaxTuple ordered by <; a       *)
(* bucket is the pair (level, nodes); the digest of a bucket is a tagged     *)
(* copy of its content (a collision-free hash); the block store is the set   *)
(* of buckets that were put.                                                 *)
EXTENDS Integers, Sequences, FiniteSets, TLC

VARIABLES store, root, clone, cs, ops, last, mu, hist, sr

vars == <<store, root, clone, cs, ops, last, mu, hist, sr>>

\* ---------------------------------------------------------------- bounds
MaxTuple == 4
MaxCalls == 2
\* calls are explored while the cursor index is below this bound
MaxIndex == 3
\* the largest number of updates in one mutate call
MaxBatch == 2

Tuples == 1..MaxTuple

\* ------------------------------------------------------ program constants
Average == 2
HashMod == 6

\* ------------------------------------------------------------- sequences
Last(s) == s[Len(s)]

Min(a, b) == IF a < b THEN a ELSE b

RECURSIVE SeqOfSet(_)
SeqOfSet(S) ==
  IF S = {} THEN <<>>
  ELSE LET x == CHOOSE y \in S : \A z \in S : y <= z
       IN <<x>> \o SeqOfSet(S \ {x})

\* With(e, LAMBDA v : body) is LET v == e IN body
With(v, In(_)) == In(v)

\* findFailure(array, test), its arguments given as the sequence of the
\* test's results on the elements: the number of elements before the first
\* that fails, the length when none fails
RECURSIVE findFailureFrom(_, _)
findFailureFrom(passes, i) ==
  IF i > Len(passes) THEN Len(passes)
  ELSE IF ~passes[i] THEN i - 1
  ELSE findFailureFrom(passes, i + 1)

findFailure(passes) == findFailureFrom(passes, 1)

Throws == -2

\* like findFailure, the last index when none fails; throws on the empty list
findFailureOrLastIndex(passes) ==
  IF Len(passes) = 0 THEN Throws
  ELSE Min(findFailure(passes), Len(passes) - 1)

\* ------------------------------------------------- entries and buckets
NoNode == [t |-> 0, m |-> <<"null">>]

Leaf(t, v) == [t |-> t, m |-> <<"m", v>>]

compareTuples(a, b) == a.t - b.t

\* the 32-bit word taken from the entry's hash
hashOf(node) == (2 * node.t) % HashMod

isBoundaryNode(average, level, node) ==
  ((hashOf(node) + 4 * level) % HashMod) < (HashMod \div average)

createBucket(level, nodes) == [level |-> level, nodes |-> nodes]

getHash(bucket) == <<"h", bucket.level, bucket.nodes>>

getBoundary(bucket) ==
  IF Len(bucket.nodes) = 0 THEN NoNode ELSE Last(bucket.nodes)

bucketToParentNode(bucket) ==
  IF Len(bucket.nodes) = 0 THEN NoNode
  ELSE [t |-> getBoundary(bucket).t, m |-> getHash(bucket)]

\* a block fetch: the bucket stored under the digest, verified against the
\* expected level
loadBucketOk(blocks, digest, level) ==
  \E b \in blocks : getHash(b) = digest /\ b.level = level

loadBucket(blocks, digest, level) ==
  CHOOSE b \in blocks : getHash(b) = digest /\ b.level = level

\* ---------------------------------------------------------------- cursor
NoCursor == [buckets |-> <<>>, index |-> -1, isDone |-> FALSE, isLocked |-> FALSE]

createCursorState(rootBucket) ==
  LET idx == Min(0, Len(rootBucket.nodes) - 1)
  IN [buckets |-> <<rootBucket>>, index |-> idx,
      isDone |-> (idx = -1), isLocked |-> FALSE]

cloneCursorState(state) == state

bucketOf(state) == Last(state.buckets)

nodeOfOk(state) ==
  state.index >= 0 /\ state.index < Len(bucketOf(state).nodes)

nodeOf(state) == bucketOf(state).nodes[state.index + 1]

levelOf(state) == bucketOf(state).level

rootLevelOf(state) == state.buckets[1].level

RECURSIVE getIsExtremityFrom(_, _, _)
getIsExtremityFrom(state, first, i) ==
  IF i >= Len(state.buckets) THEN TRUE
  ELSE LET parent == state.buckets[i]
           child  == state.buckets[i + 1]
           ext    == IF first THEN parent.nodes[1] ELSE Last(parent.nodes)
       IN IF ext.m # getHash(child) THEN FALSE
          ELSE getIsExtremityFrom(state, first, i + 1)

getIsExtremity(state, first) == getIsExtremityFrom(state, first, 1)

getIsAtTail(state) == getIsExtremity(state, TRUE)

\* isAtHead with the first entry of every parent taken for its last
getIsAtHead_FirstEntry(state) == getIsExtremity(state, TRUE)

getIsAtHead(state) == getIsExtremity(state, FALSE)

overflows(state) == state.index = Len(bucketOf(state).nodes) - 1

\* guideByTuple passing the entries up to the target, the target's own included
guideByTuple_PastEqual(target, nodes) ==
  findFailureOrLastIndex([k \in 1..Len(nodes) |-> compareTuples(target, nodes[k]) >= 0])

guideByTuple(target, nodes) ==
  findFailureOrLastIndex([k \in 1..Len(nodes) |-> compareTuples(target, nodes[k]) > 0])

\* a descent that keeps to the right side
guideByHighestIndex == [kind |-> "tuple", t |-> MaxTuple + 1]

guideByLowestIndex == [kind |-> "lowest", t |-> 0]
guideTo(tuple) == [kind |-> "tuple", t |-> tuple]

applyGuide(g, nodes) ==
  IF g.kind = "lowest" THEN 0 ELSE guideByTuple([t |-> g.t], nodes)

Ok(state) == [st |-> state, err |-> FALSE]
Err(state) == [st |-> state, err |-> TRUE]

\* one iteration of the loop of moveToLevel
moveToLevelIter(blocks, state, level, g) ==
  IF level > levelOf(state)
  THEN LET k    == level - levelOf(state)
           bs   == SubSeq(state.buckets, 1, Len(state.buckets) - k)
           idx  == applyGuide(g, Last(bs).nodes)
       IN IF idx = Throws THEN Err([state EXCEPT !.buckets = bs])
          ELSE Ok([state EXCEPT !.buckets = bs, !.index = idx])
  ELSE IF ~nodeOfOk(state) THEN Err(state)
  ELSE LET digest == nodeOf(state).m
           lvl    == levelOf(state) - 1
       IN IF ~loadBucketOk(blocks, digest, lvl) THEN Err(state)
          ELSE LET bucket == loadBucket(blocks, digest, lvl)
               IN IF Len(bucket.nodes) = 0 THEN Err(state)
                  ELSE Ok([state EXCEPT !.buckets = Append(@, bucket),
                                        !.index = applyGuide(g, bucket.nodes)])

RECURSIVE moveToLevelLoop(_, _, _, _)
moveToLevelLoop(blocks, state, level, g) ==
  IF level = levelOf(state) THEN Ok(state)
  ELSE With(moveToLevelIter(blocks, state, level, g),
            LAMBDA r : IF r.err THEN r ELSE moveToLevelLoop(blocks, r.st, level, g))

\* the checks of moveToLevel before its loop
moveToLevelRejects(state, level) ==
  level = levelOf(state) \/ level < 0 \/ level > rootLevelOf(state)

\* moveToLevel called with an explicit guide
moveToLevelGuided(blocks, state, level, g) ==
  IF moveToLevelRejects(state, level) THEN Err(state)
  ELSE moveToLevelLoop(blocks, state, level, g)

\* moveToLevel called without a guide
moveToLevel(blocks, state, level) ==
  IF moveToLevelRejects(state, level) THEN Err(state)
  ELSE IF level > levelOf(state) /\ ~nodeOfOk(state) THEN Err(state)
  ELSE moveToLevelLoop(blocks, state, level,
                       IF level < levelOf(state) THEN guideByLowestIndex
                       ELSE guideTo(nodeOf(state).t))

RECURSIVE moveSidewaysUp(_, _, _)
moveSidewaysUp(blocks, state, stateCopy) ==
  IF ~overflows(stateCopy) THEN [st |-> stateCopy, err |-> FALSE, done |-> FALSE]
  ELSE IF Len(stateCopy.buckets) = 1
       THEN [st |-> stateCopy, err |-> FALSE, done |-> TRUE]
       ELSE With(moveToLevel(blocks, stateCopy, levelOf(stateCopy) + 1),
                 LAMBDA r : IF r.err THEN [st |-> r.st, err |-> TRUE, done |-> FALSE]
                            ELSE moveSidewaysUp(blocks, state, r.st))

\* moveSideways after its climb: the increment and the way back down
moveSidewaysDown(blocks, state, inc) ==
  IF levelOf(inc) = levelOf(state) THEN Ok(inc)
  ELSE With(moveToLevel(blocks, inc, levelOf(state)),
            LAMBDA r : IF r.err THEN Err(state) ELSE Ok(r.st))

moveSideways(blocks, state) ==
  With(moveSidewaysUp(blocks, state, cloneCursorState(state)),
       LAMBDA up : IF up.err THEN Err(state)
                   ELSE IF up.done THEN Ok([state EXCEPT !.isDone = TRUE])
                   ELSE moveSidewaysDown(blocks, state,
                                         [up.st EXCEPT !.index = @ + 1]))

\* ------------------------------------------------ the mutating operations
NoOp == [kind |-> "none", level |-> 0, t |-> 0, copy |-> NoCursor,
         pc |-> "none"]

\* the first lines of nextAtLevel, nextBucketAtLevel and ffwToTupleOnLevel:
\* a level above the root marks the cursor done
markDone(state, level) ==
  IF level > rootLevelOf(state) THEN [state EXCEPT !.isDone = TRUE] ELSE state

\* the lock tested before the done flag
entryCheck_LockFirst(state, level) ==
  IF state.isLocked THEN "lockerr"
  ELSE IF markDone(state, level).isDone THEN "returned"
  ELSE "started"

\* what the entry checks decide: "returned" (done), "lockerr", "started"
entryCheck(state, level) ==
  IF markDone(state, level).isDone THEN "returned"
  ELSE IF state.isLocked THEN "lockerr"
  ELSE "started"

\* the body of nextAtLevel after the lock is taken; state is the shared
\* state, stateCopy the snapshot taken at the call
nextAtLevelBody(blocks, state, stateCopy, level) ==
  With(IF level # levelOf(stateCopy) THEN moveToLevel(blocks, stateCopy, level)
       ELSE Ok(stateCopy),
       LAMBDA r1 :
         IF r1.err THEN Err(state)
         ELSE IF level >= levelOf(state)
              THEN With(moveSideways(blocks, r1.st),
                        LAMBDA r2 : IF r2.err THEN Err(state) ELSE Ok(r2.st))
              ELSE Ok(r1.st))

nextBucketAtLevelBody(blocks, state, stateCopy, level) ==
  With(IF level # levelOf(state) THEN moveToLevel(blocks, stateCopy, level)
       ELSE Ok(stateCopy),
       LAMBDA r1 :
         IF r1.err THEN Err(state)
         ELSE With(moveSideways(blocks,
                     [r1.st EXCEPT !.index = Len(bucketOf(state).nodes) - 1]),
                   LAMBDA r2 : IF r2.err THEN Err(state) ELSE Ok(r2.st)))

\* ffwToTupleOnLevel moves the shared state itself; one step per awaited
\* moveToLevel iteration.  f is the frame of the call (tuple, level, copy).
ffwClimbs(state, f) ==
  /\ levelOf(state) < rootLevelOf(state)
  /\ f.t > Last(bucketOf(state).nodes).t

ffwAwaits(state, f) == ffwClimbs(state, f) \/ f.level # levelOf(state)

ffwFinish(state, f) ==
  IF ~nodeOfOk(state) THEN [st |-> state, pc |-> "fin", status |-> "err"]
  ELSE [st |-> f.copy, pc |-> "fin", status |-> "done"]

ffwDown(blocks, state, f) ==
  IF f.level = levelOf(state) THEN ffwFinish(state, f)
  ELSE With(moveToLevelIter(blocks, state, f.level, guideTo(f.t)),
            LAMBDA r : [st |-> r.st, pc |-> "down",
                        status |-> IF r.err THEN "err" ELSE "more"])

ffwStep(blocks, state, f) ==
  IF f.pc = "up"
  THEN IF ffwClimbs(state, f)
       THEN With(moveToLevelGuided(blocks, state, levelOf(state) + 1, guideTo(f.t)),
                 LAMBDA r : [st |-> r.st, pc |-> "up",
                             status |-> IF r.err THEN "err" ELSE "more"])
       ELSE IF f.level # levelOf(state) /\ moveToLevelRejects(state, f.level)
            THEN [st |-> state, pc |-> "up", status |-> "err"]
            ELSE ffwDown(blocks, state, f)
  ELSE ffwDown(blocks, state, f)

RECURSIVE ffwRun(_, _, _)
ffwRun(blocks, state, f) ==
  With(ffwStep(blocks, state, f),
       LAMBDA r : IF r.status = "more"
                  THEN ffwRun(blocks, r.st, [f EXCEPT !.pc = r.pc])
                  ELSE r)

ffwFrame(state, tuple, level) ==
  [kind |-> "ffw", level |-> level, t |-> tuple,
   copy |-> cloneCursorState(state), pc |-> "up"]

\* the operations run to completion, as awaited by mutateTree and search
ffwToTupleOnLevel(blocks, state, tuple, level) ==
  IF entryCheck(state, level) # "started"
  THEN [st |-> markDone(state, level), out |-> entryCheck(state, level)]
  ELSE With(ffwRun(blocks, [state EXCEPT !.isLocked = TRUE],
                   ffwFrame(state, tuple, level)),
            LAMBDA r : [st |-> r.st,
                        out |-> IF r.status = "err" THEN "failed" ELSE "returned"])

nextBucketAtLevel(blocks, state, level) ==
  IF entryCheck(state, level) # "started"
  THEN [st |-> markDone(state, level), out |-> entryCheck(state, level)]
  ELSE With(nextBucketAtLevelBody(blocks, [state EXCEPT !.isLocked = TRUE],
                                  cloneCursorState(state), level),
            LAMBDA r : IF r.err
                       THEN [st |-> [state EXCEPT !.isLocked = TRUE], out |-> "failed"]
                       ELSE [st |-> r.st, out |-> "returned"])

nextAtLevel(blocks, state, level) ==
  IF entryCheck(state, level) # "started"
  THEN [st |-> markDone(state, level), out |-> entryCheck(state, level)]
  ELSE With(nextAtLevelBody(blocks, [state EXCEPT !.isLocked = TRUE],
                            cloneCursorState(state), level),
            LAMBDA r : IF r.err
                       THEN [st |-> [state EXCEPT !.isLocked = TRUE], out |-> "failed"]
                       ELSE [st |-> r.st, out |-> "returned"])

\* ------------------------------------------- building a tree from scratch
RECURSIVE levelOfNodesFrom(_, _, _, _)
levelOfNodesFrom(level, nodes, i, acc) ==
  IF i > Len(nodes)
  THEN IF Len(Last(acc)) = 0 THEN SubSeq(acc, 1, Len(acc) - 1) ELSE acc
  ELSE LET open == Append(Last(acc), nodes[i])
           kept == SubSeq(acc, 1, Len(acc) - 1) \o <<open>>
       IN levelOfNodesFrom(level, nodes, i + 1,
            IF isBoundaryNode(Average, level, nodes[i])
            THEN Append(kept, <<>>) ELSE kept)

levelOfNodes(level, nodes) == levelOfNodesFrom(level, nodes, 1, << <<>> >>)

levelOfBuckets(level, nodeLevel) ==
  [i \in 1..Len(nodeLevel) |-> createBucket(level, nodeLevel[i])]

nextLevelNodes(buckets) ==
  [i \in 1..Len(buckets) |->
     [t |-> Last(buckets[i].nodes).t, m |-> getHash(buckets[i])]]

RECURSIVE createProllyTreeFrom(_, _)
createProllyTreeFrom(level, treeState) ==
  IF Len(Last(treeState)) <= 1 THEN treeState
  ELSE createProllyTreeFrom(level + 1,
         Append(treeState,
                levelOfBuckets(level + 1,
                   levelOfNodes(level + 1, nextLevelNodes(Last(treeState))))))

\* the levels of buckets of the tree over a non-empty ascending node list
createProllyTree(nodes) ==
  createProllyTreeFrom(0, <<levelOfBuckets(0, levelOfNodes(0, nodes))>>)

createEmptyTree == createBucket(0, <<>>)

treeRoot(treeState) == Last(treeState)[1]

treeBuckets(treeState) ==
  UNION {{treeState[l][i] : i \in 1..Len(treeState[l])} : l \in 1..Len(treeState)}

\* ------------------------------------------------------ mutation engine
Tup(t) == [t |-> t, m |-> <<"null">>]

AddUpdate(node, level) == [op |-> "add", level |-> level, value |-> node]
RmUpdate(tuple, level) == [op |-> "rm", level |-> level, value |-> tuple]

compareNodeToUpdate(a, b) == compareTuples(a, b.value)

\* the result of handleUpdate: the node kept (NoNode for none), whether a
\* diff is reported, and the diff (removed, added)
\* handleUpdate reporting a diff for every Add over an existing entry
handleUpdate_AlwaysReplaces(node, update) ==
  IF update.op = "add"
  THEN [node |-> update.value, changed |-> TRUE,
        diff |-> <<node, update.value>>]
  ELSE IF node # NoNode
       THEN [node |-> NoNode, changed |-> TRUE, diff |-> <<node, NoNode>>]
       ELSE [node |-> NoNode, changed |-> FALSE, diff |-> <<NoNode, NoNode>>]

handleUpdate(node, update) ==
  IF update.op = "add"
  THEN IF node # NoNode
       THEN IF node.m # update.value.m
            THEN [node |-> update.value, changed |-> TRUE,
                  diff |-> <<node, update.value>>]
            ELSE [node |-> node, changed |-> FALSE, diff |-> <<NoNode, NoNode>>]
       ELSE [node |-> update.value, changed |-> TRUE,
             diff |-> <<NoNode, update.value>>]
  ELSE IF node # NoNode
       THEN [node |-> NoNode, changed |-> TRUE, diff |-> <<node, NoNode>>]
       ELSE [node |-> NoNode, changed |-> FALSE, diff |-> <<NoNode, NoNode>>]

\* the node diff put in front of the node diffs of the bucket
pushNodeDiff_InFront(nodeDiffs, nodeDiff) == <<nodeDiff>> \o nodeDiffs

\* updateBucket keeps the node diff of an update that changed something
pushNodeDiff(nodeDiffs, nodeDiff) == Append(nodeDiffs, nodeDiff)

\* the boundary test of updateBucket with the predicate of the level above
closesBucket_LevelAbove(level, node) ==
  node # NoNode /\ isBoundaryNode(Average, level + 1, node)

\* the test that closes a bucket in updateBucket: the node that was pushed is
\* a boundary of the bucket's level
closesBucket(level, node) ==
  node # NoNode /\ isBoundaryNode(Average, level, node)

\* the loop of updateBucket over the pairwise traversal of the nodes
\* (leftovers followed by the bucket's nodes) and the updates; order tells
\* which side the traversal takes: the node (< 0), the update (> 0) or both
RECURSIVE updateBucketLoop(_, _, _, _, _, _)
updateBucketLoop(level, nodes, updates, i, j, acc) ==
  IF i > Len(nodes) /\ j > Len(updates) THEN acc
  ELSE With(IF i > Len(nodes) THEN 1
            ELSE IF j > Len(updates) THEN -1
            ELSE compareNodeToUpdate(nodes[i], updates[j]),
         LAMBDA order :
           With(IF order >= 0
                THEN handleUpdate(IF order <= 0 THEN nodes[i] ELSE NoNode, updates[j])
                ELSE [node |-> nodes[i], changed |-> FALSE,
                      diff |-> <<NoNode, NoNode>>],
             LAMBDA hu :
               With(IF hu.node # NoNode THEN Append(acc.afterbound, hu.node)
                    ELSE acc.afterbound,
                 LAMBDA after :
                   With(closesBucket(level, hu.node),
                     LAMBDA closes :
                       updateBucketLoop(level, nodes, updates,
                         IF order <= 0 THEN i + 1 ELSE i,
                         IF order >= 0 THEN j + 1 ELSE j,
                         [buckets |-> IF closes
                                      THEN Append(acc.buckets, createBucket(level, after))
                                      ELSE acc.buckets,
                          afterbound |-> IF closes THEN <<>> ELSE after,
                          nodeDiffs |-> IF hu.changed
                                        THEN pushNodeDiff(acc.nodeDiffs, hu.diff)
                                        ELSE acc.nodeDiffs])))))

\* updateBucket without the last bucket of the head of a level
updateBucket_NoHeadFlush(bucket, leftovers, updates, isHead) ==
  updateBucketLoop(bucket.level, leftovers \o bucket.nodes, updates, 1, 1,
                   [buckets |-> <<>>, afterbound |-> <<>>, nodeDiffs |-> <<>>])

updateBucket(bucket, leftovers, updates, isHead) ==
  With(updateBucketLoop(bucket.level, leftovers \o bucket.nodes, updates, 1, 1,
                        [buckets |-> <<>>, afterbound |-> <<>>, nodeDiffs |-> <<>>]),
    LAMBDA r :
      IF isHead /\ (Len(r.afterbound) > 0 \/ Len(r.buckets) = 0)
      THEN [buckets |-> Append(r.buckets, createBucket(bucket.level, r.afterbound)),
            afterbound |-> <<>>, nodeDiffs |-> r.nodeDiffs]
      ELSE r)

\* the order of updates with the tuples of a level compared the other way round
compareLeveledUpdates_TuplesDescend(a, b) ==
  IF a.level # b.level THEN a.level - b.level ELSE compareTuples(b.value, a.value)

compareLeveledUpdates(a, b) ==
  IF a.level # b.level THEN a.level - b.level ELSE compareTuples(a.value, b.value)

\* a stable sort by compareLeveledUpdates
RECURSIVE sortUpdates(_)
sortUpdates(us) ==
  IF Len(us) <= 1 THEN us
  ELSE LET k == CHOOSE x \in 1..Len(us) :
                  /\ \A y \in 1..Len(us) : compareLeveledUpdates(us[x], us[y]) <= 0
                  /\ \A y \in 1..(x - 1) : compareLeveledUpdates(us[y], us[x]) > 0
       IN <<us[k]>> \o sortUpdates(SubSeq(us, 1, k - 1) \o SubSeq(us, k + 1, Len(us)))

NoBucket == [level |-> -1, nodes |-> <<>>]

createProllyTreeDiff == [nodes |-> <<>>, buckets |-> <<>>]

\* the new buckets pushed to the diff without the first of them
Added_ButFirst(buckets) == [k \in 1..(Len(buckets) - 1) |-> <<NoBucket, buckets[k + 1]>>]

Added(buckets) == [k \in 1..Len(buckets) |-> <<NoBucket, buckets[k]>>]

Reverse(s) == [k \in 1..Len(s) |-> s[Len(s) + 1 - k]]

\* the parent updates pushed at the end of an iteration
parentUpdatesOf(updatee, buckets, changed, level) ==
  LET old  == bucketToParentNode(updatee)
      rm   == IF old # NoNode /\ changed THEN <<RmUpdate(old, level + 1)>> ELSE <<>>
      live == SelectSeq(buckets, LAMBDA b : bucketToParentNode(b) # NoNode)
      adds == [k \in 1..Len(live) |-> AddUpdate(bucketToParentNode(live[k]), level + 1)]
  IN sortUpdates(rm \o adds)

NoSearch == [pc |-> "idle", tuples |-> <<>>, input |-> <<>>, cursor |-> NoCursor,
             results |-> <<>>]

NoMu == [pc |-> "idle", updts |-> <<>>, n |-> 0, level |-> -1,
         bucketsOnLevel |-> 0, leftovers |-> <<>>, visitedLevelTail |-> FALSE,
         visitedLevelHead |-> FALSE, newRoot |-> NoBucket, i |-> 0,
         diff |-> createProllyTreeDiff, cursor |-> NoCursor,
         out |-> createProllyTreeDiff, why |-> "none", rootBefore |-> NoBucket,
         updatee |-> NoBucket, buckets |-> <<>>, changed |-> FALSE,
         tree |-> "root"]

\* the state of mutateTree when it enters its loop
mutateTreeStart(tree, updates) ==
  [NoMu EXCEPT !.pc = "loop", !.updts = updates, !.n = Len(updates),
               !.cursor = createCursorState(tree), !.rootBefore = tree]

loopGoesOn(m) == Len(m.updts) > 0 /\ m.i < m.n * m.n

Thrown(m, why) == [m EXCEPT !.pc = "failed", !.why = why]

\* the end of an iteration of the loop of mutateTree: the new root, or the
\* updates for the parent level
mutateTreeAfter(m) ==
  LET newRootFound == /\ m.bucketsOnLevel = 1
                      /\ Len(m.leftovers) = 0
                      /\ m.visitedLevelTail
                      /\ m.visitedLevelHead
      m1 == [m EXCEPT !.pc = "loop"]
  IN IF newRootFound
     THEN IF Len(m.buckets) = 0 THEN Thrown(m1, "empty")
          ELSE [m1 EXCEPT !.newRoot = m.buckets[1], !.updts = <<>>]
     ELSE [m1 EXCEPT !.updts = @ \o parentUpdatesOf(m.updatee, m.buckets,
                                                    m.changed, m.level)]

\* an iteration of the loop of mutateTree from the bookkeeping of the diff to
\* its yield (pc "yield", the diff in m.out) or, without one, to the end of
\* the iteration; dNodes and dBuckets are the diff after the pushes
mutateTreeYield(m, dNodes, dBuckets) ==
  IF m.changed /\ Len(m.buckets) > 0
  THEN With(IF getBoundary(Last(m.buckets)) = NoNode \/ m.visitedLevelHead
            THEN Len(dNodes)
            ELSE findFailure([x \in 1..Len(dNodes) |->
                   compareTuples(IF dNodes[x][1] # NoNode THEN dNodes[x][1]
                                 ELSE dNodes[x][2],
                                 getBoundary(Last(m.buckets))) <= 0]),
         LAMBDA k :
           [m EXCEPT !.pc = "yield",
                     !.out = [nodes |-> SubSeq(dNodes, 1, k), buckets |-> dBuckets],
                     !.diff = [nodes |-> SubSeq(dNodes, k + 1, Len(dNodes)),
                               buckets |-> <<>>]])
  ELSE mutateTreeAfter([m EXCEPT !.out = createProllyTreeDiff,
                                 !.diff = [nodes |-> dNodes, buckets |-> dBuckets]])

\* an iteration of the loop of mutateTree from the update of the bucket on;
\* ub is the result of updateBucket
mutateTreeUpdated(m, pastRootLevel, ub) ==
  mutateTreeYield(
    [m EXCEPT !.buckets = ub.buckets, !.changed = Len(ub.nodeDiffs) > 0,
              !.bucketsOnLevel = @ + Len(ub.buckets), !.leftovers = ub.afterbound],
    IF Len(ub.nodeDiffs) > 0 /\ m.level = 0 THEN m.diff.nodes \o ub.nodeDiffs
    ELSE m.diff.nodes,
    IF Len(ub.nodeDiffs) > 0
    THEN m.diff.buckets \o Added(ub.buckets)
         \o (IF pastRootLevel THEN <<>> ELSE << <<m.updatee, NoBucket>> >>)
    ELSE m.diff.buckets)

\* an iteration of the loop of mutateTree from the choice of the batch on;
\* k is the number of updates that go to the bucket
mutateTreeBatch(m, pastRootLevel, k) ==
  mutateTreeUpdated([m EXCEPT !.updts = SubSeq(@, k + 1, Len(@))], pastRootLevel,
                    updateBucket(m.updatee, m.leftovers, SubSeq(m.updts, 1, k),
                                 m.visitedLevelHead))

\* an iteration of the loop of mutateTree after the cursor has moved (moved
\* is the outcome of the cursor call, for a level above the root the cursor
\* as it was)
mutateTreeMoved(m, firstBucketOfLevel, pastRootLevel, moved) ==
  IF moved.out # "returned"
  THEN Thrown([m EXCEPT !.i = @ + 1, !.level = m.updts[1].level,
                        !.cursor = moved.st,
                        !.bucketsOnLevel = IF firstBucketOfLevel THEN 0 ELSE @],
              "cursor")
  ELSE With([m EXCEPT !.i = @ + 1, !.level = m.updts[1].level,
                      !.cursor = moved.st,
                      !.bucketsOnLevel = IF firstBucketOfLevel THEN 0 ELSE @,
                      !.updatee = IF pastRootLevel
                                  THEN createBucket(m.updts[1].level, <<>>)
                                  ELSE bucketOf(moved.st),
                      !.visitedLevelTail =
                         IF pastRootLevel THEN TRUE
                         ELSE @ \/ (firstBucketOfLevel /\ getIsAtTail(moved.st)),
                      !.visitedLevelHead =
                         IF pastRootLevel THEN TRUE ELSE getIsAtHead(moved.st)],
         LAMBDA m1 :
           mutateTreeBatch(m1, pastRootLevel,
             findFailure([x \in 1..Len(m1.updts) |->
               /\ m1.updts[x].level = m1.level
               /\ (\/ getBoundary(m1.updatee) = NoNode
                   \/ m1.visitedLevelHead
                   \/ compareTuples(m1.updts[x].value, getBoundary(m1.updatee)) <= 0)])))

\* one iteration of the loop of mutateTree, up to its yield or, without one,
\* to the end of the iteration
mutateTreeIter(blocks, m) ==
  mutateTreeMoved(m, m.level # m.updts[1].level,
    m.updts[1].level > rootLevelOf(m.cursor),
    IF m.updts[1].level > rootLevelOf(m.cursor)
    THEN [st |-> m.cursor, out |-> "returned"]
    ELSE IF Len(m.leftovers) = 0
         THEN ffwToTupleOnLevel(blocks, m.cursor, m.updts[1].value.t, m.updts[1].level)
         ELSE nextBucketAtLevel(blocks, m.cursor, levelOf(m.cursor)))

\* mutateTree after its loop: the error, or the last diff with the buckets
\* of the old path above the new root
mutateTreeExit(m) ==
  IF m.newRoot = NoBucket THEN Thrown(m, "noroot")
  ELSE LET stack == m.cursor.buckets
           upper == IF m.level < rootLevelOf(m.cursor)
                    THEN SubSeq(stack, 1, Min(Len(stack), Len(stack) - 1 + m.level))
                    ELSE <<>>
           gone  == Reverse([k \in 1..Len(upper) |-> <<upper[k], NoBucket>>])
           diff  == [m.diff EXCEPT !.buckets = @ \o gone]
       IN IF Len(diff.buckets) > 0
          THEN [m EXCEPT !.pc = "final", !.diff = diff, !.out = diff]
          ELSE [m EXCEPT !.pc = "commit", !.diff = diff, !.out = createProllyTreeDiff]

\* the update list built by mutate from its add and rm lists
RECURSIVE mutateUpdates(_, _, _, _)
mutateUpdates(add, rm, i, j) ==
  IF i > Len(add) /\ j > Len(rm) THEN <<>>
  ELSE LET order == IF i > Len(add) THEN 1
                    ELSE IF j > Len(rm) THEN -1
                    ELSE compareTuples(add[i], rm[j])
       IN <<IF order <= 0 THEN AddUpdate(add[i], 0) ELSE RmUpdate(rm[j], 0)>>
          \o mutateUpdates(add, rm, IF order <= 0 THEN i + 1 ELSE i,
                           IF order >= 0 THEN j + 1 ELSE j)

\* the buckets a yielded diff reports as removed, in the order of the diff
removedBuckets(diff) ==
  [k \in 1..Len(SelectSeq(diff.buckets, LAMBDA d : d[1] # NoBucket))
     |-> SelectSeq(diff.buckets, LAMBDA d : d[1] # NoBucket)[k][1]]

\* the buckets mutate saves from a yielded diff
addedBuckets(diff) ==
  {diff.buckets[k][2] : k \in {x \in 1..Len(diff.buckets) : diff.buckets[x][2] # NoBucket}}

\* ======================================================= the cursor machine
Cursors == 1..2

\* the last call or completion: which cursor and operation, its arguments,
\* whether it was the call ("call") or the end of an awaited run ("end"), and
\* how it came out ("returned", "lockerr", "failed", "started")
NoLast == [c |-> 0, kind |-> "none", ev |-> "none", level |-> 0, t |-> 0,
           out |-> "none"]

Event(c, kind, ev, level, t, out) ==
  [c |-> c, kind |-> kind, ev |-> ev, level |-> level, t |-> t, out |-> out]

\* the leaf nodes of a set, ascending by tuple (one node per tuple)
nodesOf(S) ==
  LET ts == SeqOfSet({n.t : n \in S})
  IN [i \in 1..Len(ts) |-> CHOOSE n \in S : n.t = ts[i]]

LeavesOf(E) == {Leaf(t, 1) : t \in E}

\* the tree built from scratch over a set of leaf nodes, level by level
CanonicalTree(S) ==
  IF S = {} THEN << <<createEmptyTree>> >> ELSE createProllyTree(nodesOf(S))

CanonicalRoot(S) == treeRoot(CanonicalTree(S))

CanonicalBuckets(S) == treeBuckets(CanonicalTree(S))

\* the rightmost bucket of every level
HeadBuckets(S) == {Last(CanonicalTree(S)[l]) : l \in 1..Len(CanonicalTree(S))}

ArgLevels(state) == 0..(rootLevelOf(state) + 1)
ArgTuples == 1..(MaxTuple + 1)

InitCursor ==
  \E S \in {LeavesOf(1..n) : n \in 0..MaxTuple} :
    \E gone \in {{}} \cup {{b} : b \in HeadBuckets(S) \ {CanonicalRoot(S)}} :
      /\ root = CanonicalRoot(S)
      /\ store = CanonicalBuckets(S) \ gone
      /\ hist = [contents |-> S, calls |-> <<>>, next |-> S, valid |-> TRUE]
      /\ clone = NoBucket
      /\ cs = [c \in Cursors |->
                 IF c = 1 THEN createCursorState(CanonicalRoot(S)) ELSE NoCursor]
      /\ ops = [c \in Cursors |-> NoOp]
      /\ last = NoLast
      /\ mu = NoMu
      /\ sr = NoSearch

\* a call of next() / nextAtLevel(level): the synchronous part up to the
\* first await
CallNextAtLevel(c, level) ==
  /\ cs[c] # NoCursor
  /\ cs[c].index < MaxIndex
  /\ LET s0 == markDone(cs[c], level)
         e  == entryCheck(cs[c], level)
     IN /\ cs' = [cs EXCEPT ![c] =
                    IF e = "started" THEN [s0 EXCEPT !.isLocked = TRUE] ELSE s0]
        /\ ops' = [ops EXCEPT ![c] =
                    IF e = "started"
                    THEN [kind |-> "next", level |-> level, t |-> 0,
                          copy |-> cloneCursorState(s0), pc |-> "run"]
                    ELSE @]
        /\ last' = Event(c, IF level = levelOf(cs[c]) THEN "next" ELSE "nextAtLevel",
                         "call", level, 0, e)
  /\ UNCHANGED <<store, root, clone, mu, hist, sr>>

\* the rest of nextAtLevel for cursors whose clones hold the same array of
\* buckets: the stack of every cursor that has the stack of c moves with it
CompleteNextAtLevel_SharedStack(c) ==
  /\ ops[c].kind = "next"
  /\ LET r == nextAtLevelBody(store, cs[c], ops[c].copy, ops[c].level)
     IN /\ cs' = [d \in Cursors |->
                    IF d = c THEN r.st
                    ELSE IF cs[d] # NoCursor /\ cs[d].buckets = cs[c].buckets
                         THEN [cs[d] EXCEPT !.buckets = r.st.buckets]
                         ELSE cs[d]]
        /\ last' = Event(c, IF ops[c].level = levelOf(ops[c].copy) THEN "next"
                            ELSE "nextAtLevel", "end", ops[c].level, 0,
                         IF r.err THEN "failed" ELSE "returned")
  /\ ops' = [ops EXCEPT ![c] = NoOp]
  /\ UNCHANGED <<store, root, clone, mu, hist, sr>>

\* the rest of nextAtLevel: the moves on the snapshot and the commit, or the
\* failure of a block fetch
CompleteNextAtLevel(c) ==
  /\ ops[c].kind = "next"
  /\ LET r == nextAtLevelBody(store, cs[c], ops[c].copy, ops[c].level)
     IN /\ cs' = [cs EXCEPT ![c] = r.st]
        /\ last' = Event(c, IF ops[c].level = levelOf(ops[c].copy) THEN "next"
                            ELSE "nextAtLevel", "end", ops[c].level, 0,
                         IF r.err THEN "failed" ELSE "returned")
  /\ ops' = [ops EXCEPT ![c] = NoOp]
  /\ UNCHANGED <<store, root, clone, mu, hist, sr>>

CallNextBucketAtLevel(c, level) ==
  /\ cs[c] # NoCursor
  /\ cs[c].index < MaxIndex
  /\ LET s0 == markDone(cs[c], level)
         e  == entryCheck(cs[c], level)
     IN /\ cs' = [cs EXCEPT ![c] =
                    IF e = "started" THEN [s0 EXCEPT !.isLocked = TRUE] ELSE s0]
        /\ ops' = [ops EXCEPT ![c] =
                    IF e = "started"
                    THEN [kind |-> "nextBucket", level |-> level, t |-> 0,
                          copy |-> cloneCursorState(s0), pc |-> "run"]
                    ELSE @]
        /\ last' = Event(c, IF level = levelOf(cs[c]) THEN "nextBucket"
                            ELSE "nextBucketAtLevel", "call", level, 0, e)
  /\ UNCHANGED <<store, root, clone, mu, hist, sr>>

CompleteNextBucketAtLevel(c) ==
  /\ ops[c].kind = "nextBucket"
  /\ LET r == nextBucketAtLevelBody(store, cs[c], ops[c].copy, ops[c].level)
     IN /\ cs' = [cs EXCEPT ![c] = r.st]
        /\ last' = Event(c, IF ops[c].level = levelOf(ops[c].copy)
                            THEN "nextBucket" ELSE "nextBucketAtLevel",
                         "end", ops[c].level, 0,
                         IF r.err THEN "failed" ELSE "returned")
  /\ ops' = [ops EXCEPT ![c] = NoOp]
  /\ UNCHANGED <<store, root, clone, mu, hist, sr>>

\* a call of ffw(tuple, level); it runs to its end at once when it has no
\* move to await
CallFfw(c, tuple, level) ==
  /\ cs[c] # NoCursor
  /\ cs[c].index < MaxIndex
  /\ LET s0 == markDone(cs[c], level)
         e  == entryCheck(cs[c], level)
         lk == [s0 EXCEPT !.isLocked = TRUE]
         f  == ffwFrame(s0, tuple, level)
     IN IF e # "started"
        THEN /\ cs' = [cs EXCEPT ![c] = s0]
             /\ ops' = ops
             /\ last' = Event(c, "ffw", "call", level, tuple, e)
        ELSE IF ffwAwaits(lk, f)
        THEN /\ cs' = [cs EXCEPT ![c] = lk]
             /\ ops' = [ops EXCEPT ![c] = f]
             /\ last' = Event(c, "ffw", "call", level, tuple, e)
        ELSE LET r == ffwFinish(lk, f)
             IN /\ cs' = [cs EXCEPT ![c] = r.st]
                /\ ops' = ops
                /\ last' = Event(c, "ffw", "call", level, tuple,
                                 IF r.status = "err" THEN "failed" ELSE "returned")
  /\ UNCHANGED <<store, root, clone, mu, hist, sr>>

\* ffw resumes after an awaited move: the next move, or the end of the call
StepFfw(c) ==
  /\ ops[c].kind = "ffw"
  /\ \E r \in {ffwStep(store, cs[c], ops[c])} :
        /\ cs' = [cs EXCEPT ![c] = r.st]
        /\ ops' = [ops EXCEPT ![c] =
                     IF r.status = "more" THEN [@ EXCEPT !.pc = r.pc] ELSE NoOp]
        /\ last' = IF r.status = "more"
                   THEN Event(c, "ffw", "step", ops[c].level, ops[c].t, "started")
                   ELSE Event(c, "ffw", "end", ops[c].level, ops[c].t,
                              IF r.status = "err" THEN "failed" ELSE "returned")
  /\ UNCHANGED <<store, root, clone, mu, hist, sr>>

NextCursor ==
  \/ \E level \in ArgLevels(cs[1]) : CallNextAtLevel(1, level)
  \/ CompleteNextAtLevel(1)
  \/ \E level \in ArgLevels(cs[1]) : CallNextBucketAtLevel(1, level)
  \/ CompleteNextBucketAtLevel(1)
  \/ \E level \in ArgLevels(cs[1]) : \E t \in ArgTuples : CallFfw(1, t, level)
  \/ StepFfw(1)

SpecCursor == InitCursor /\ [][NextCursor]_vars

\* ------------------------------------------------ a cursor and its clone
\* a cursor on the root of a stored tree, not cloned yet; hist.shared is the
\* state the two cursors had when the clone was made
InitPair ==
  \E S \in {LeavesOf(1..MaxTuple)} :
    /\ root = CanonicalRoot(S)
    /\ store = CanonicalBuckets(S)
    /\ hist = [contents |-> S, calls |-> <<>>, next |-> S, valid |-> TRUE,
               shared |-> NoCursor]
    /\ clone = NoBucket
    /\ cs = [c \in Cursors |->
               IF c = 1 THEN createCursorState(CanonicalRoot(S)) ELSE NoCursor]
    /\ ops = [c \in Cursors |-> NoOp]
    /\ last = NoLast
    /\ mu = NoMu
    /\ sr = NoSearch

\* cursor.clone(): a second cursor over a copy of the state of the first
CloneCursor ==
  /\ cs[2] = NoCursor
  /\ cs' = [cs EXCEPT ![2] = cloneCursorState(cs[1])]
  /\ hist' = [hist EXCEPT !.shared = cs[1]]
  /\ last' = Event(2, "clone", "call", 0, 0, "returned")
  /\ UNCHANGED <<store, root, clone, ops, mu, sr>>

\* the tuples ffw is called with: the lowest of the tree and one past its
\* highest
PairTuples == {1, MaxTuple + 1}

\* no call is awaiting a block
Idle == \A c \in Cursors : ops[c] = NoOp

\* the calls of the two cursors follow each other: a call starts when none
\* is awaiting a block
PairNextAtLevel(c, level) == Idle /\ CallNextAtLevel(c, level)

PairNextBucketAtLevel(c, level) == Idle /\ CallNextBucketAtLevel(c, level)

PairFfw(c, t, level) == Idle /\ CallFfw(c, t, level)

NextPair ==
  \/ CloneCursor
  \/ \E c \in Cursors : \E level \in ArgLevels(cs[1]) : PairNextAtLevel(c, level)
  \/ \E c \in Cursors : CompleteNextAtLevel(c)
  \/ \E c \in Cursors : \E level \in ArgLevels(cs[1]) : PairNextBucketAtLevel(c, level)
  \/ \E c \in Cursors : CompleteNextBucketAtLevel(c)
  \/ \E c \in Cursors : \E level \in ArgLevels(cs[1]) : \E t \in PairTuples :
        PairFfw(c, t, level)
  \/ \E c \in Cursors : StepFfw(c)

SpecPair == InitPair /\ [][NextPair]_vars

\* ------------------------------------------------ properties of the cursor
RECURSIVE Flatten(_)
Flatten(ss) == IF Len(ss) = 0 THEN <<>> ELSE ss[1].nodes \o Flatten(Tail(ss))

\* the entries of one level of the tree the cursor walks, in order
LevelEntries(level) == Flatten(CanonicalTree(hist.contents)[level + 1])

\* 1-based position on its level of the entry with this tuple, 0 when absent
PosOf(level, tuple) ==
  LET es == LevelEntries(level)
  IN IF \E k \in 1..Len(es) : es[k].t = tuple
     THEN CHOOSE k \in 1..Len(es) : es[k].t = tuple
     ELSE 0

MutatingKinds ==
  {"next", "nextAtLevel", "nextBucket", "nextBucketAtLevel", "ffw"}

\* the state of cursor 1 before the operation that the step ends
PreOf(ev) == IF ev = "end" THEN ops[1].copy ELSE cs[1]

\* where ffw(t, level) has to stop: the first entry of the level, not before
\* the entry the cursor was on, whose tuple is >= t; the last entry if none
FfwTarget(pre, tuple, level) ==
  With(LevelEntries(level), LAMBDA es :
    With(IF PosOf(levelOf(pre), nodeOf(pre).t) <= 1 THEN 0
         ELSE LevelEntries(levelOf(pre))[PosOf(levelOf(pre), nodeOf(pre).t) - 1].t,
      LAMBDA low :
        With({j \in 1..Len(es) : es[j].t > low /\ es[j].t >= tuple},
          LAMBDA ok : IF ok = {} THEN Last(es).t
                      ELSE es[CHOOSE j \in ok : \A i \in ok : j <= i].t)))

\* C5: when ffw(t, level) returns on a cursor that was not done, with
\* 0 <= level <= rootLevel(), the cursor is at `level` on the first entry of
\* that level, at or after the position before the call, whose tuple is >= t
\* (the last entry when there is none).
C5_FfwReachesTuple ==
  [][(/\ last'.kind = "ffw" /\ last'.ev \in {"call", "end"}
      /\ last'.out = "returned"
      /\ ~PreOf(last'.ev).isDone
      /\ nodeOfOk(PreOf(last'.ev))
      /\ last'.level <= rootLevelOf(PreOf(last'.ev)))
     => (/\ levelOf(cs'[1]) = last'.level
         /\ nodeOfOk(cs'[1])
         /\ nodeOf(cs'[1]).t = FfwTarget(PreOf(last'.ev), last'.t, last'.level))]_vars

\* C7: while a mutating operation is in flight on the cursor, every other
\* mutating call on it fails with the lock error, whatever its arguments.
C7_OverlappingCallsFail ==
  [][(last'.ev = "call" /\ last'.kind \in MutatingKinds /\ ops[1] # NoOp)
     => last'.out = "lockerr"]_vars

\* C8: once done() is true it is true in every later state.
C8_DoneIsSticky == [][cs[1].isDone => cs'[1].isDone]_vars

\* C9: a mutating call on a cursor that is already done returns without
\* error and leaves the bucket stack, the index and the locked flag as they
\* were.
C9_DoneCallIsNoop ==
  [][(last'.ev = "call" /\ last'.kind \in MutatingKinds /\ cs[1].isDone)
     => (/\ last'.out = "returned"
         /\ cs'[1].buckets = cs[1].buckets
         /\ cs'[1].index = cs[1].index
         /\ cs'[1].isLocked = cs[1].isLocked)]_vars

\* a call on a done cursor that holds a stale lock has returned
C9_Witness ==
  /\ last.ev = "call" /\ last.kind \in MutatingKinds /\ last.out = "returned"
  /\ last.level <= rootLevelOf(cs[1])
  /\ cs[1].isDone /\ cs[1].isLocked /\ cs[1].index >= 0

\* C10: when next() returns on a cursor that was not done and stood on an
\* entry, either the cursor is done and that entry was the last one of its
\* level, or the level is unchanged and the current entry is the immediate
\* successor, on that level, of the entry before the call.
C10_NextIsSuccessor ==
  [][(/\ last'.kind = "next" /\ last'.ev = "end" /\ last'.out = "returned"
      /\ ops[1].kind = "next"
      /\ nodeOfOk(ops[1].copy))
     => LET pre == ops[1].copy
            lvl == levelOf(pre)
        IN IF cs'[1].isDone
           THEN nodeOf(pre).t = Last(LevelEntries(lvl)).t
           ELSE /\ levelOf(cs'[1]) = lvl
                /\ nodeOfOk(cs'[1])
                /\ nodeOf(cs'[1]).t > nodeOf(pre).t
                /\ PosOf(lvl, nodeOf(cs'[1]).t) = PosOf(lvl, nodeOf(pre).t) + 1]_vars

\* next() has stepped from the last entry of one leaf bucket to the first
\* entry of the following one, two levels below the root
C10_Witness ==
  /\ last.kind = "next" /\ last.ev = "end" /\ last.out = "returned"
  /\ ~cs[1].isDone /\ Len(cs[1].buckets) = 3 /\ cs[1].index = 0
  /\ ~getIsAtTail(cs[1])

\* ========================================================= the tree machine
MsgVals == {1, 2}

AllLeaves == {Leaf(t, v) : t \in Tuples, v \in MsgVals}

\* the add and rm arguments of one mutate call: each ascending by tuple,
\* without a tuple twice
Batches ==
  {b \in [add : SUBSET AllLeaves, rm : SUBSET Tuples] :
     /\ \A x, y \in b.add : x.t = y.t => x = y
     /\ Cardinality(b.add) + Cardinality(b.rm) \in 1..MaxBatch}

\* the leaf entries a tree has to hold after a batch
Applied(contents, b) ==
  {n \in contents : n.t \notin b.rm /\ n.t \notin {a.t : a \in b.add}} \cup b.add

CallKind(contents, b) ==
  IF b.rm = {} /\ {a.t : a \in b.add} \cap {n.t : n \in contents} = {} THEN "ins"
  ELSE IF b.add = {} /\ b.rm = {n.t : n \in contents} THEN "rmall"
  ELSE "other"

StoreHolds(S) == \A b \in CanonicalBuckets(S) : b.nodes = <<>> \/ b \in store

\* the buckets of S that the entries of the buckets of B link to
ChildrenIn(S, B) ==
  {b \in S : \E p \in B : \E i \in 1..Len(p.nodes) : p.nodes[i].m = getHash(b)}

RECURSIVE ReachIn(_, _)
ReachIn(S, B) == IF B = {} THEN {} ELSE B \cup ReachIn(S, ChildrenIn(S, B))

\* the bucket r and every bucket linked from it, directly or not, are in S
Closed(S, r) ==
  /\ r \in S
  /\ \A b \in ReachIn(S, {r}) : \A i \in 1..Len(b.nodes) :
       b.nodes[i].m[1] = "h" => \E c \in S : getHash(c) = b.nodes[i].m

InitTree ==
  /\ root = createEmptyTree
  /\ clone = NoBucket
  /\ store = {}
  /\ cs = [c \in Cursors |-> NoCursor]
  /\ ops = [c \in Cursors |-> NoOp]
  /\ last = NoLast
  /\ mu = NoMu
  /\ hist = [contents |-> {}, calls |-> <<>>, next |-> {}, valid |-> TRUE,
             stored |-> FALSE, nodes |-> <<>>, batch |-> [add |-> {}, rm |-> {}], before |-> {}, removed |-> <<>>]
  /\ sr = NoSearch

Quiet == mu.pc \in {"idle", "done", "failed", "abandoned"}

\* the two trees of the model: the variable root is the root slot of the
\* first, the variable clone the root slot of the tree made by cloneTree
Trees == {"root", "clone"}

rootOf(tr) == IF tr = "root" THEN root ELSE clone

\* tree.root = bucket
SetRoot(tr, bucket) ==
  /\ root' = IF tr = "root" THEN bucket ELSE root
  /\ clone' = IF tr = "clone" THEN bucket ELSE clone

\* the root slot of the tree cloneTree makes
cloneTree(tree) == tree

\* mutate(blockstore, tree, add, rm) up to the first step of mutateTree
MutateOn(tr, b) ==
  /\ Quiet
  /\ Len(hist.calls) < MaxCalls
  /\ rootOf(tr) # NoBucket
  /\ mu' = [mutateTreeStart(rootOf(tr),
             mutateUpdates(nodesOf(b.add),
                           [k \in 1..Cardinality(b.rm) |-> Tup(SeqOfSet(b.rm)[k])], 1, 1))
            EXCEPT !.tree = tr]
  /\ hist' = [hist EXCEPT !.calls = Append(@, CallKind(hist.contents, b)),
                          !.next = Applied(hist.contents, b),
                          !.valid = /\ root = CanonicalRoot(hist.contents)
                                    /\ StoreHolds(hist.contents),
                          !.stored = Closed(store, root),
                          !.nodes = <<>>,
                          !.batch = b,
                          !.before = hist.contents,
                          !.removed = <<>>]
  /\ UNCHANGED <<store, root, clone, cs, ops, last, sr>>

Mutate(b) == MutateOn("root", b)

\* one iteration of the loop of mutateTree; the block store may fail to
\* answer during the iteration
MutateTreeIterate ==
  /\ mu.pc = "loop"
  /\ loopGoesOn(mu)
  /\ \E blocks \in {store, {}} :
       mu' = mutateTreeIter(blocks, mu)
  /\ hist' = IF mu'.pc = "failed"
             THEN [hist EXCEPT !.calls[Len(hist.calls)] = "failed"] ELSE hist
  /\ UNCHANGED <<store, root, clone, cs, ops, last, sr>>

\* the resumed mutation with the root set as soon as it is found
MutateResume_RootInLoop ==
  /\ mu.pc \in {"yield", "final"}
  /\ store' = store \cup addedBuckets(mu.out)
  /\ mu' = IF mu.pc = "yield" THEN mutateTreeAfter(mu) ELSE [mu EXCEPT !.pc = "done"]
  /\ SetRoot(mu.tree, IF mu'.newRoot # NoBucket THEN mu'.newRoot ELSE rootOf(mu.tree))
  /\ hist' = [hist EXCEPT !.nodes = @ \o mu.out.nodes,
                          !.removed = @ \o removedBuckets(mu.out),
                          !.calls[Len(hist.calls)] = IF mu'.pc = "failed" THEN "failed" ELSE @,
                          !.contents = IF mu'.pc = "done" THEN hist.next ELSE @]
  /\ UNCHANGED <<cs, ops, last, sr>>

\* mutate takes the yielded diff, saves its new buckets and resumes
\* mutateTree: to the end of the iteration, or after the last yield to the
\* assignment of the root
MutateResume ==
  /\ mu.pc \in {"yield", "final"}
  /\ store' = store \cup addedBuckets(mu.out)
  /\ mu' = IF mu.pc = "yield" THEN mutateTreeAfter(mu) ELSE [mu EXCEPT !.pc = "done"]
  /\ SetRoot(mu.tree, IF mu.pc = "final" THEN mu.newRoot ELSE rootOf(mu.tree))
  /\ hist' = [hist EXCEPT !.nodes = @ \o mu.out.nodes,
                          !.removed = @ \o removedBuckets(mu.out),
                          !.calls[Len(hist.calls)] = IF mu'.pc = "failed" THEN "failed" ELSE @,
                          !.contents = IF mu'.pc = "done" THEN hist.next ELSE @]
  /\ UNCHANGED <<cs, ops, last, sr>>

\* the consumer drops the generator at a yield
MutateAbandon ==
  /\ mu.pc \in {"yield", "final"}
  /\ mu' = [mu EXCEPT !.pc = "abandoned"]
  /\ hist' = [hist EXCEPT !.calls[Len(hist.calls)] = "abandoned"]
  /\ UNCHANGED <<store, root, clone, cs, ops, last, sr>>

\* the end of the loop with the new root written to every tree that holds
\* the old one
MutateTreeExit_SharedSlot ==
  /\ mu.pc = "loop"
  /\ ~loopGoesOn(mu)
  /\ LET m == mutateTreeExit(mu)
     IN IF m.pc = "commit"
        THEN /\ mu' = [m EXCEPT !.pc = "done"]
             /\ root' = IF root = rootOf(mu.tree) THEN m.newRoot ELSE root
             /\ clone' = IF clone = rootOf(mu.tree) THEN m.newRoot ELSE clone
             /\ hist' = [hist EXCEPT !.contents = hist.next]
        ELSE /\ mu' = m
             /\ UNCHANGED <<root, clone>>
             /\ hist' = IF m.pc = "failed"
                        THEN [hist EXCEPT !.calls[Len(hist.calls)] = "failed"]
                        ELSE hist
  /\ UNCHANGED <<store, cs, ops, last, sr>>

\* the loop has ended: the error, the last yield, or the new root at once
MutateTreeExit ==
  /\ mu.pc = "loop"
  /\ ~loopGoesOn(mu)
  /\ LET m == mutateTreeExit(mu)
     IN IF m.pc = "commit"
        THEN /\ mu' = [m EXCEPT !.pc = "done"]
             /\ SetRoot(mu.tree, m.newRoot)
             /\ hist' = [hist EXCEPT !.contents = hist.next]
        ELSE /\ mu' = m
             /\ UNCHANGED <<root, clone>>
             /\ hist' = IF m.pc = "failed"
                        THEN [hist EXCEPT !.calls[Len(hist.calls)] = "failed"]
                        ELSE hist
  /\ UNCHANGED <<store, cs, ops, last, sr>>

NextTree ==
  \/ \E b \in Batches : Mutate(b)
  \/ MutateTreeIterate
  \/ MutateResume
  \/ MutateAbandon
  \/ MutateTreeExit

SpecTree == InitTree /\ [][NextTree]_vars

\* ------------------------------------------------- a tree and its clone
\* a stored tree that has not been cloned yet; hist.shared is the root the
\* two trees had when the clone was made
InitClone ==
  \E T \in SUBSET Tuples :
    /\ root = CanonicalRoot(LeavesOf(T))
    /\ store = CanonicalBuckets(LeavesOf(T))
    /\ hist = [contents |-> LeavesOf(T), calls |-> <<>>, next |-> LeavesOf(T),
               valid |-> TRUE, stored |-> FALSE, nodes |-> <<>>,
               batch |-> [add |-> {}, rm |-> {}], before |-> {}, removed |-> <<>>, shared |-> NoBucket]
    /\ clone = NoBucket
    /\ cs = [c \in Cursors |-> NoCursor]
    /\ ops = [c \in Cursors |-> NoOp]
    /\ last = NoLast
    /\ mu = NoMu
    /\ sr = NoSearch

\* clone = cloneTree(tree)
CloneTree ==
  /\ clone = NoBucket
  /\ clone' = cloneTree(root)
  /\ hist' = [hist EXCEPT !.shared = root]
  /\ UNCHANGED <<store, root, cs, ops, last, mu, sr>>

\* the batches of one update
SingleUpdates == {b \in Batches : Cardinality(b.add) + Cardinality(b.rm) = 1}

NextClone ==
  \/ CloneTree
  \/ \E tr \in Trees, b \in SingleUpdates : MutateOn(tr, b)
  \/ MutateTreeIterate
  \/ MutateResume
  \/ MutateAbandon
  \/ MutateTreeExit

SpecClone == InitClone /\ [][NextClone]_vars

\* ------------------------------------- the functions of the builder alone
\* the ascending sequences of leaf entries over a set of tuples
EntrySeqs(T) ==
  UNION {{nodesOf(S) : S \in {X \in SUBSET AllLeaves : {n.t : n \in X} = E
                                                       /\ Cardinality(X) = Cardinality(E)}} :
         E \in SUBSET T}

\* the update lists of one level, strictly ascending by tuple
UpdateSeqs(level) ==
  {[k \in 1..Len(mutateUpdates(nodesOf(b.add), [j \in 1..Cardinality(b.rm) |-> Tup(SeqOfSet(b.rm)[j])], 1, 1))
      |-> [mutateUpdates(nodesOf(b.add),
                         [j \in 1..Cardinality(b.rm) |-> Tup(SeqOfSet(b.rm)[j])], 1, 1)[k]
           EXCEPT !.level = level]] :
     b \in {x \in Batches : {a.t : a \in x.add} \cap x.rm = {}}}

\* the arguments updateBucket is called with: a bucket whose entries before
\* the last are no boundaries, leftovers that lie before the bucket and hold
\* no boundary, updates of the bucket's level
UpdateBucketArgs ==
  {a \in [bucket : {createBucket(l, ns) : l \in 0..1, ns \in EntrySeqs(Tuples)},
          leftovers : EntrySeqs(Tuples), updates : UpdateSeqs(0) \cup UpdateSeqs(1),
          isHead : BOOLEAN] :
     /\ \A i \in 1..Len(a.updates) : a.updates[i].level = a.bucket.level
     /\ \A i \in 1..(Len(a.bucket.nodes) - 1) :
          ~isBoundaryNode(Average, a.bucket.level, a.bucket.nodes[i])
     /\ \A i \in 1..Len(a.leftovers) :
          /\ ~isBoundaryNode(Average, a.bucket.level, a.leftovers[i])
          /\ \A j \in 1..Len(a.bucket.nodes) : a.leftovers[i].t < a.bucket.nodes[j].t}

\* the arguments handleUpdate is called with: an update and the entry of
\* its tuple, if there is one
HandleUpdateArgs ==
  {a \in [node : {NoNode} \cup AllLeaves,
          update : {AddUpdate(n, 0) : n \in AllLeaves} \cup {RmUpdate(Tup(t), 0) : t \in Tuples}] :
     a.node # NoNode => a.node.t = a.update.value.t}

InitBuilder ==
  /\ \/ \E a \in UpdateBucketArgs :
          last = [kind |-> "updateBucket", ev |-> "call", args |-> a,
                  out |-> [buckets |-> <<>>, afterbound |-> <<>>, nodeDiffs |-> <<>>]]
     \/ \E a \in HandleUpdateArgs :
          last = [kind |-> "handleUpdate", ev |-> "call", args |-> a,
                  out |-> [node |-> NoNode, changed |-> FALSE, diff |-> <<NoNode, NoNode>>]]
  /\ root = createEmptyTree
  /\ clone = NoBucket
  /\ store = {}
  /\ cs = [c \in Cursors |-> NoCursor]
  /\ ops = [c \in Cursors |-> NoOp]
  /\ mu = NoMu
  /\ hist = [contents |-> {}, calls |-> <<>>, next |-> {}, valid |-> TRUE]
  /\ sr = NoSearch

\* updateBucket(bucket, leftovers, updates, isHead)
CallUpdateBucket ==
  /\ last.kind = "updateBucket"
  /\ last.ev = "call"
  /\ last' = [last EXCEPT !.ev = "end",
                          !.out = updateBucket(last.args.bucket, last.args.leftovers,
                                               last.args.updates, last.args.isHead)]
  /\ UNCHANGED <<store, root, clone, cs, ops, mu, hist, sr>>

\* handleUpdate(node, update)
CallHandleUpdate ==
  /\ last.kind = "handleUpdate"
  /\ last.ev = "call"
  /\ last' = [last EXCEPT !.ev = "end",
                          !.out = handleUpdate(last.args.node, last.args.update)]
  /\ UNCHANGED <<store, root, clone, cs, ops, mu, hist, sr>>

NextBuilder ==
  \/ CallUpdateBucket
  \/ CallHandleUpdate

SpecBuilder == InitBuilder /\ [][NextBuilder]_vars

\* ------------------------------------------------------ guideByTuple alone
\* the arguments of guideByTuple: a target tuple and an ascending entry list
GuideArgs ==
  {[target |-> Tup(t), nodes |-> ns] : t \in 0..(MaxTuple + 1), ns \in EntrySeqs(Tuples)}

InitGuide ==
  /\ \E a \in GuideArgs :
       last = [kind |-> "guideByTuple", ev |-> "call", args |-> a, out |-> -1]
  /\ root = createEmptyTree
  /\ clone = NoBucket
  /\ store = {}
  /\ cs = [c \in Cursors |-> NoCursor]
  /\ ops = [c \in Cursors |-> NoOp]
  /\ mu = NoMu
  /\ hist = [contents |-> {}, calls |-> <<>>, next |-> {}, valid |-> TRUE]
  /\ sr = NoSearch

\* guideByTuple(target)(nodes)
CallGuideByTuple ==
  /\ last.kind = "guideByTuple"
  /\ last.ev = "call"
  /\ last' = [last EXCEPT !.ev = "end",
                          !.out = guideByTuple(last.args.target, last.args.nodes)]
  /\ UNCHANGED <<store, root, clone, cs, ops, mu, hist, sr>>

NextGuide == CallGuideByTuple

SpecGuide == InitGuide /\ [][NextGuide]_vars

\* the places, counted from 0, of the entries of a list whose tuple is not
\* below the tuple t
NotBelow(t, nodes) == {k \in 0..(Len(nodes) - 1) : nodes[k + 1].t >= t}

\* C32: on an ascending list that is not empty guideByTuple returns the
\* index of the first entry whose tuple is not below the target, and the last
\* index when every entry is below it; on the empty list it fails
C32_GuideByTuple ==
  (last.kind = "guideByTuple" /\ last.ev = "end")
    => IF Len(last.args.nodes) = 0 THEN last.out = Throws
       ELSE IF NotBelow(last.args.target.t, last.args.nodes) = {}
            THEN last.out = Len(last.args.nodes) - 1
            ELSE /\ last.out \in NotBelow(last.args.target.t, last.args.nodes)
                 /\ \A k \in NotBelow(last.args.target.t, last.args.nodes) : last.out <= k

\* guideByTuple has returned an index between the first and the last for a
\* target that is the tuple of an entry
C32_Witness ==
  /\ last.kind = "guideByTuple" /\ last.ev = "end"
  /\ Len(last.args.nodes) >= 3
  /\ 0 < last.out /\ last.out < Len(last.args.nodes) - 1
  /\ last.args.nodes[last.out + 1].t = last.args.target.t

\* guideByTuple has returned the last index for a target above every entry
C32_WitnessPastEnd ==
  /\ last.kind = "guideByTuple" /\ last.ev = "end"
  /\ Len(last.args.nodes) >= 2
  /\ NotBelow(last.args.target.t, last.args.nodes) = {}
  /\ last.out = Len(last.args.nodes) - 1

\* guideByTuple has failed on the empty list
C32_WitnessEmpty ==
  /\ last.kind = "guideByTuple" /\ last.ev = "end"
  /\ last.args.nodes = <<>> /\ last.out = Throws

\* ======================================================= the search machine
\* search(blockstore, tree, tuples) up to its loop: the tuples sorted and a
\* cursor made on the root
InitSearch ==
  \E T \in SUBSET Tuples, Q \in (SUBSET ArgTuples) \ {{}} :
    /\ root = CanonicalRoot(LeavesOf(T))
    /\ store = CanonicalBuckets(LeavesOf(T))
    /\ hist = [contents |-> LeavesOf(T), calls |-> <<>>, next |-> LeavesOf(T),
               valid |-> TRUE]
    /\ clone = NoBucket
    /\ cs = [c \in Cursors |-> NoCursor]
    /\ ops = [c \in Cursors |-> NoOp]
    /\ last = NoLast
    /\ mu = NoMu
    /\ sr = [pc |-> "loop", tuples |-> [k \in 1..Cardinality(Q) |-> Tup(SeqOfSet(Q)[k])],
             input |-> [k \in 1..Cardinality(Q) |-> Tup(SeqOfSet(Q)[k])],
             cursor |-> createCursorState(CanonicalRoot(LeavesOf(T))),
             results |-> <<>>]

\* one iteration of the loop of search, for a cursor that is done
SearchDone ==
  /\ sr.pc = "loop"
  /\ Len(sr.tuples) > 0
  /\ sr.cursor.isDone
  /\ sr' = [sr EXCEPT !.tuples = Tail(@),
                      !.results = Append(@, Head(sr.tuples))]
  /\ UNCHANGED <<store, root, clone, cs, ops, last, mu, hist>>

\* one iteration of the loop of search, moving the cursor
SearchFfw ==
  /\ sr.pc = "loop"
  /\ Len(sr.tuples) > 0
  /\ ~sr.cursor.isDone
  /\ \E blocks \in {store, {}} :
     \E tuple \in {Head(sr.tuples)} :
     \E r \in {ffwToTupleOnLevel(blocks, sr.cursor, tuple.t, 0)} :
          sr' = IF r.out # "returned" \/ ~nodeOfOk(r.st)
                THEN [sr EXCEPT !.pc = "failed", !.tuples = Tail(@), !.cursor = r.st]
                ELSE [sr EXCEPT !.tuples = Tail(@),
                                !.cursor = r.st,
                                !.results = Append(@,
                                   IF compareTuples(tuple, nodeOf(r.st)) = 0
                                   THEN nodeOf(r.st) ELSE tuple)]
  /\ UNCHANGED <<store, root, clone, cs, ops, last, mu, hist>>

\* the loop of search ends
SearchReturn ==
  /\ sr.pc = "loop"
  /\ Len(sr.tuples) = 0
  /\ sr' = [sr EXCEPT !.pc = "done"]
  /\ UNCHANGED <<store, root, clone, cs, ops, last, mu, hist>>

NextSearch == SearchDone \/ SearchFfw \/ SearchReturn

SpecSearch == InitSearch /\ [][NextSearch]_vars

\* the buckets of one level of the tree the cursor walks, in order
LevelBuckets(level) == CanonicalTree(hist.contents)[level + 1]

\* 1-based position on its level of a bucket, 0 when it is not of the level
BucketPos(level, b) ==
  With(LevelBuckets(level), LAMBDA bs :
    IF \E k \in 1..Len(bs) : bs[k] = b
    THEN CHOOSE k \in 1..Len(bs) : bs[k] = b
    ELSE 0)

\* the bucket of `level` that holds the tuple
BucketWith(level, tuple) ==
  With(LevelBuckets(level), LAMBDA bs :
    bs[CHOOSE k \in 1..Len(bs) : \E i \in 1..Len(bs[k].nodes) : bs[k].nodes[i].t = tuple])

\* the bucket of `level` a cursor in state pre is in, above or below: its own
\* bucket, the bucket of its stack on that level, or the leftmost bucket of
\* that level under its current entry
BucketAt(pre, level) ==
  IF level >= levelOf(pre)
  THEN pre.buckets[Len(pre.buckets) - (level - levelOf(pre))]
  ELSE With(IF PosOf(levelOf(pre), nodeOf(pre).t) <= 1 THEN 0
            ELSE LevelEntries(levelOf(pre))[PosOf(levelOf(pre), nodeOf(pre).t) - 1].t,
         LAMBDA low :
           With(LevelEntries(level), LAMBDA es :
             BucketWith(level,
               es[CHOOSE j \in 1..Len(es) :
                    es[j].t > low /\ \A i \in 1..Len(es) : es[i].t > low => j <= i].t)))

\* C20: when nextBucketAtLevel(level) returns on a cursor that was not done,
\* with level <= rootLevel(), and the cursor is not done, the cursor is at
\* `level`, at index 0 of the bucket that follows on that level the bucket
\* the cursor was in, above or below; also when `level` is not the level the
\* cursor was on
C20_NextBucketLands ==
  [][(/\ last'.kind \in {"nextBucket", "nextBucketAtLevel"}
      /\ last'.ev = "end" /\ last'.out = "returned"
      /\ ops[1].kind = "nextBucket"
      /\ nodeOfOk(ops[1].copy)
      /\ ~cs'[1].isDone)
     => /\ levelOf(cs'[1]) = ops[1].level
        /\ cs'[1].index = 0
        /\ BucketPos(ops[1].level, bucketOf(cs'[1]))
             = BucketPos(ops[1].level, BucketAt(ops[1].copy, ops[1].level)) + 1]_vars

\* the case of C20 where `level` is the level the cursor is on
C20_SameLevel ==
  [][(/\ last'.kind = "nextBucket"
      /\ last'.ev = "end" /\ last'.out = "returned"
      /\ ops[1].kind = "nextBucket"
      /\ nodeOfOk(ops[1].copy)
      /\ ~cs'[1].isDone)
     => /\ levelOf(cs'[1]) = ops[1].level
        /\ cs'[1].index = 0
        /\ BucketPos(ops[1].level, bucketOf(cs'[1]))
             = BucketPos(ops[1].level, bucketOf(ops[1].copy)) + 1]_vars

\* C21: while a mutating operation is in flight on the cursor, the position
\* the accessors read (bucket stack and index, hence level, current entry
\* and current bucket) is the one from before the call: a step after which
\* the operation is still in flight leaves it as it was, and the new
\* position appears in the step that ends the operation
C21_PositionHiddenInFlight ==
  [][(ops[1] # NoOp /\ ops'[1] # NoOp)
     => (/\ cs'[1].buckets = cs[1].buckets
         /\ cs'[1].index = cs[1].index)]_vars

\* C22: in every state where a cursor is locked, a mutating operation on it
\* has started and has neither returned nor failed
C22_LockedOnlyInFlight ==
  \A c \in Cursors : (cs[c] # NoCursor /\ cs[c].isLocked) => ops[c] # NoOp

\* C23: when a mutating operation fails (a block of the path cannot be
\* fetched), the bucket stack and the index of the cursor are what they
\* were before the call
C23_FailureKeepsPosition ==
  [][(/\ last'.kind \in MutatingKinds
      /\ last'.ev \in {"call", "end"}
      /\ last'.out = "failed")
     => (/\ cs'[1].buckets = PreOf(last'.ev).buckets
         /\ cs'[1].index = PreOf(last'.ev).index)]_vars

\* the case of C23 for the operations other than ffw
C23_NextKeepsPosition ==
  [][(/\ last'.kind \in MutatingKinds \ {"ffw"}
      /\ last'.ev \in {"call", "end"}
      /\ last'.out = "failed")
     => (/\ cs'[1].buckets = PreOf(last'.ev).buckets
         /\ cs'[1].index = PreOf(last'.ev).index)]_vars

\* every bucket of the stack but the last is linked to the next by its first entry
LinkedByFirst(buckets) ==
  \A k \in 1..(Len(buckets) - 1) : buckets[k].nodes[1].m = getHash(buckets[k + 1])

\* every bucket of the stack but the last is linked to the next by its last entry
LinkedByLast(buckets) ==
  \A k \in 1..(Len(buckets) - 1) :
    buckets[k].nodes[Len(buckets[k].nodes)].m = getHash(buckets[k + 1])

\* C30: isAtTail (isAtHead) is true exactly when every parent of the bucket
\* stack links to its child by its first (last) entry; on a stack of one
\* bucket both are true
C30_ExtremityIsLinkage ==
  \A c \in Cursors :
    cs[c] # NoCursor
      => /\ getIsAtTail(cs[c]) = LinkedByFirst(cs[c].buckets)
         /\ getIsAtHead(cs[c]) = LinkedByLast(cs[c].buckets)
         /\ Len(cs[c].buckets) = 1 => (getIsAtTail(cs[c]) /\ getIsAtHead(cs[c]))

\* a cursor that has moved to a bucket below the root that is the first of
\* its level and not the last
C30_Witness ==
  /\ cs[1] # NoCursor /\ Len(cs[1].buckets) >= 2
  /\ last.kind \in MutatingKinds /\ last.out = "returned"
  /\ getIsAtTail(cs[1]) /\ ~getIsAtHead(cs[1])

\* a cursor on a bucket below the root that is neither the first nor the
\* last of its level
C30_WitnessInside ==
  /\ cs[1] # NoCursor /\ Len(cs[1].buckets) >= 2
  /\ ~getIsAtTail(cs[1]) /\ ~getIsAtHead(cs[1])

\* the index of a cursor state points at an entry of its current bucket
IndexInBucket(state) ==
  Len(bucketOf(state).nodes) > 0
    => (0 <= state.index /\ state.index < Len(bucketOf(state).nodes))

\* C31: in every cursor state whose current bucket is not empty the index
\* points at an entry of the current bucket
C31_IndexInBucket ==
  \A c \in Cursors : cs[c] # NoCursor => IndexInBucket(cs[c])

\* the index of a cursor at rest points at an entry of its current bucket
C31_IndexInBucketAtRest ==
  \A c \in Cursors : (cs[c] # NoCursor /\ ops[c] = NoOp) => IndexInBucket(cs[c])

\* C17: clone() gives a cursor with the bucket stack, index and flags of the
\* original and leaves the original as it is; from then on a step that
\* changes the bucket stack, the index, the done flag or the locked flag of
\* one cursor is a step of an operation called on that cursor
C17_CursorsIndependent ==
  [][/\ (cs[2] = NoCursor /\ cs'[2] # NoCursor) => (cs'[2] = cs[1] /\ cs'[1] = cs[1])
     /\ \A c \in Cursors : (cs[c] # NoCursor /\ cs'[c] # cs[c]) => last'.c = c]_vars

\* after the clone was made, operations have moved the clone and the
\* original away from the state they shared, to different places
C17_Witness ==
  /\ cs[2] # NoCursor
  /\ Idle
  /\ cs[1] # hist.shared
  /\ cs[2] # hist.shared
  /\ cs[1] # cs[2]
  /\ \A c \in Cursors : ~cs[c].isLocked /\ ~cs[c].isDone

\* ==================================================== properties of mutate
AllInserts == \A k \in 1..Len(hist.calls) : hist.calls[k] = "ins"

\* C1: History independence: after any sequence of committed mutate calls
\* that only insert entries with new tuples into an empty tree, the root is
\* the root obtained by chunking the sorted entries from scratch.
C1_HistoryIndependence ==
  (mu.pc = "done" /\ AllInserts) => root = CanonicalRoot(hist.contents)

\* C2: Round trip: after inserting a set of entries into an empty tree and
\* then removing every one of its tuples, the root is the root of a freshly
\* created empty tree.
C2_RoundTrip ==
  (mu.pc = "done" /\ hist.calls = <<"ins", "rmall">>) => root = createEmptyTree

\* C3: For a tree that satisfies the tree invariants and whose buckets are
\* all in the block store, mutateTree never ends with the 'no new root
\* found' error.
C3_NoRootNeverThrown ==
  ~(/\ mu.pc = "failed"
    /\ mu.why = "noroot"
    /\ mu.rootBefore = CanonicalRoot(hist.contents)
    /\ StoreHolds(hist.contents))

\* C4: While a mutation runs, and after it failed or was abandoned, the
\* tree's root is the bucket it was before the call.
C4_RootWrittenLast ==
  mu.pc \in {"loop", "yield", "final", "failed", "abandoned"} => root = mu.rootBefore

\* a mutation of a tree that is not empty has ended without a new root,
\* after buckets it made were saved
C4_Witness ==
  /\ mu.pc \in {"failed", "abandoned"}
  /\ root = mu.rootBefore
  /\ root # createEmptyTree
  /\ mu.i > 0
  /\ \E b \in store : b \notin CanonicalBuckets(hist.contents)

\* the buckets the entries of the buckets of B link to, in the block store
Children(B) ==
  {b \in store : \E p \in B : /\ b.level = p.level - 1
                               /\ \E i \in 1..Len(p.nodes) : p.nodes[i].m = getHash(b)}

RECURSIVE ReachFrom(_)
ReachFrom(B) == IF B = {} THEN {} ELSE B \cup ReachFrom(Children(B))

\* the buckets reachable from the root
Reach == ReachFrom({root})

\* a mutation of a tree that satisfied the tree invariants has set the root
Mutated == mu.pc = "done" /\ hist.valid

\* C11: After a successful mutation the tree reachable from the new root has
\* one bucket at the root level and at least two buckets at every level
\* below it; the root is not an internal bucket with a single entry and is
\* empty only at level 0.
C11_LevelsNotEmpty ==
  Mutated =>
    /\ root.nodes = <<>> => root.level = 0
    /\ root.level > 0 => Len(root.nodes) >= 2
    /\ \A l \in 0..(root.level - 1) :
         Cardinality({b \in Reach : b.level = l}) >= 2

\* the entries of the reachable buckets of a level
ReachEntries(l) ==
  UNION {{b.nodes[i] : i \in 1..Len(b.nodes)} : b \in {x \in Reach : x.level = l}}

\* entry e of a level links to a bucket one level below whose boundary has
\* e's tuple and whose entries lie above the entry before e on e's level
Linked(e, l) ==
  /\ e.m[1] = "h"
  /\ e.m[2] = l - 1
  /\ Len(e.m[3]) > 0
  /\ Last(e.m[3]).t = e.t
  /\ \A p \in ReachEntries(l) : p.t < e.t => p.t < e.m[3][1].t

\* C12: After a successful mutation of a tree that satisfied the linkage
\* invariant, every entry of every internal bucket reachable from the new
\* root has as message the digest of a bucket one level below, whose
\* boundary tuple is the entry's tuple and whose entries all lie above the
\* tuple of the entry before it.
C12_Linkage ==
  Mutated => \A l \in 1..root.level : \A e \in ReachEntries(l) : Linked(e, l)

\* bucket b is the rightmost of the reachable buckets of its level
IsHeadBucket(b) ==
  \A x \in Reach : (x.level = b.level /\ Len(x.nodes) > 0)
                     => Last(x.nodes).t <= Last(b.nodes).t

\* C13: Boundary rule: in the tree left by a successful mutation no bucket
\* holds a boundary entry of its level before its last entry, and every
\* bucket that is not the head of its level ends with a boundary entry.
C13_BoundaryRule ==
  Mutated =>
    \A b \in Reach :
      /\ \A i \in 1..(Len(b.nodes) - 1) : ~isBoundaryNode(Average, b.level, b.nodes[i])
      /\ (Len(b.nodes) > 0 /\ ~IsHeadBucket(b))
           => isBoundaryNode(Average, b.level, Last(b.nodes))

\* C14 as stated: every bucket created by a mutation appears as an added
\* bucket in a yielded diff: while mutateTree runs, the buckets built by the
\* last iteration are among the added buckets of the diff it yielded
C14_CreatedAreYielded ==
  (mu.pc \in {"loop", "yield"} /\ mu.i > 0)
    => \A k \in 1..Len(mu.buckets) : mu.buckets[k] \in addedBuckets(mu.out)

\* C14 amended: a bucket built by an iteration is among the added buckets of
\* the diff the iteration yielded unless the iteration changed no entry, and
\* then it is the bucket that was rebuilt; and when mutate has run to
\* completion on a tree whose buckets were all in the block store, every
\* bucket linked from the new root, and the root, is in the block store
C14_NewBucketsStored ==
  /\ (mu.pc \in {"loop", "yield"} /\ mu.i > 0)
       => \/ \A k \in 1..Len(mu.buckets) : mu.buckets[k] \in addedBuckets(mu.out)
          \/ ~mu.changed /\ mu.buckets = <<mu.updatee>>
  /\ (mu.pc = "done" /\ hist.stored) => Closed(store, root)

\* a mutation of a stored tree has run to completion and has given the tree
\* a new root over buckets that were not in the tree before
C14_Witness ==
  /\ mu.pc = "done"
  /\ hist.stored
  /\ root # mu.rootBefore
  /\ root.level > 0
  /\ ReachIn(store, {root}) \cap ReachIn(store, {mu.rootBefore}) = {}

\* the node diffs the running or last mutation call has yielded, in the
\* order of the yields
YieldedNodes ==
  hist.nodes \o (IF mu.pc \in {"yield", "final"} THEN mu.out.nodes ELSE <<>>)

DiffTuple(d) == IF d[1] # NoNode THEN d[1].t ELSE d[2].t

\* C15: within one mutation call the node diffs of the yielded diffs, put
\* one after the other in the order of the yields, are strictly ascending
\* by tuple
C15_NodeDiffsAscend ==
  \A i, j \in 1..Len(YieldedNodes) :
     i < j => DiffTuple(YieldedNodes[i]) < DiffTuple(YieldedNodes[j])

\* a mutation of a tree of several levels has yielded two node diffs
C15_Witness ==
  /\ Len(YieldedNodes) >= 2
  /\ mu.rootBefore.level > 0

\* C16: cloneTree gives a tree with the root bucket of the original; from
\* then on a step that changes the root of the original is a step of a
\* mutation of the original and leaves the root of the clone as it is, and
\* a step that changes the root of the clone is a step of a mutation of the
\* clone and leaves the root of the original as it is
C16_CloneIndependent ==
  [][/\ (clone = NoBucket /\ clone' # NoBucket) => (clone' = root /\ root' = root)
     /\ (clone # NoBucket /\ root' # root) => (mu.tree = "root" /\ clone' = clone)
     /\ (clone # NoBucket /\ clone' # clone) => (mu.tree = "clone" /\ root' = root)]_vars

\* after the clone was made both trees were mutated, and each has a root of
\* its own
C16_Witness ==
  /\ clone # NoBucket
  /\ mu.pc = "done"
  /\ root # hist.shared
  /\ clone # hist.shared
  /\ root # clone

\* the update list as mutate hands it to mutateTree
Handed == mu.pc = "loop" /\ mu.i = 0

\* the updates are strictly ascending by tuple, one for every tuple of add
\* and rm, and the update of a tuple of add is the Add of its entry
UpdatesMerged ==
  /\ \A i, j \in 1..Len(mu.updts) : i < j => mu.updts[i].value.t < mu.updts[j].value.t
  /\ {mu.updts[i].value.t : i \in 1..Len(mu.updts)}
       = {a.t : a \in hist.batch.add} \cup hist.batch.rm
  /\ \A i \in 1..Len(mu.updts) :
       /\ mu.updts[i].level = 0
       /\ IF \E a \in hist.batch.add : a.t = mu.updts[i].value.t
          THEN mu.updts[i].op = "add" /\ mu.updts[i].value \in hist.batch.add
          ELSE mu.updts[i].op = "rm"

\* the first half of C18 alone
C18_UpdatesAscend == Handed => UpdatesMerged

\* C18: for add and rm lists that are each strictly ascending by tuple the
\* updates handed to mutateTree are strictly ascending by tuple, a tuple
\* that is in both lists gives only the Add, and after the call the entry
\* that was added is a leaf entry of the tree
C18_AddWinsOverRm ==
  /\ Handed => UpdatesMerged
  /\ mu.pc = "done" => \A a \in hist.batch.add : a.t \in hist.batch.rm => a \in ReachEntries(0)

\* C19: in every iteration of mutateTree that gets its bucket, leftovers are
\* carried only within a level (an iteration that goes to another level than
\* the one before starts with no leftovers) and the bucket that is rebuilt
\* is of the level of the updates applied to it
C19_LeftoversStayOnLevel ==
  [][(mu'.i = mu.i + 1 /\ mu'.pc \in {"loop", "yield"})
       => /\ mu'.level # mu.level => mu.leftovers = <<>>
          /\ mu'.updatee.level = mu'.level]_vars

\* C24: an empty bucket built by an iteration of mutateTree is a bucket of
\* level 0, built by the rebuild of the head of the level, and the only
\* bucket of that rebuild
C24_EmptyBucketOnlyAtLevel0 ==
  (mu.pc \in {"loop", "yield"} /\ mu.i > 0)
    => \A k \in 1..Len(mu.buckets) :
         mu.buckets[k].nodes = <<>>
           => /\ mu.buckets[k].level = 0
              /\ mu.visitedLevelHead
              /\ Len(mu.buckets) = 1

\* the entries updateBucket has to give: those of the leftovers and of the
\* bucket whose tuple no update names, and the entries of the Adds,
\* ascending by tuple
MergedEntries(a) ==
  nodesOf({n \in {(a.leftovers \o a.bucket.nodes)[i] :
                    i \in 1..(Len(a.leftovers) + Len(a.bucket.nodes))} :
             \A k \in 1..Len(a.updates) : a.updates[k].value.t # n.t}
          \cup {a.updates[k].value : k \in {x \in 1..Len(a.updates) :
                                               a.updates[x].op = "add"}})

\* C25: the entries of the buckets updateBucket emits, in order, followed by
\* the leftovers it returns, are the ordered merge of the leftovers and the
\* entries of the bucket with the updates applied, strictly ascending, no
\* entry lost or twice; for the head of a level no leftovers are returned
C25_UpdateBucketPartitions ==
  (last.kind = "updateBucket" /\ last.ev = "end")
    => /\ Flatten(last.out.buckets) \o last.out.afterbound = MergedEntries(last.args)
       /\ last.args.isHead => last.out.afterbound = <<>>

\* updateBucket has rebuilt the head of a level from leftovers, entries,
\* an Add and a Rm into two buckets or more
C25_Witness ==
  /\ last.kind = "updateBucket" /\ last.ev = "end"
  /\ last.args.isHead
  /\ Len(last.args.leftovers) > 0
  /\ Len(last.args.bucket.nodes) > 0
  /\ \E i, j \in 1..Len(last.args.updates) :
       last.args.updates[i].op = "add" /\ last.args.updates[j].op = "rm"
  /\ Len(last.out.buckets) >= 2
  /\ Len(Last(last.out.buckets).nodes) > 0
  /\ ~isBoundaryNode(Average, last.args.bucket.level, Last(Last(last.out.buckets).nodes))

\* C29: handleUpdate follows the reconciliation table: an Add over an entry
\* with an equal message keeps the entry without a diff, an Add over an
\* entry with another message gives the added entry and the diff (old,
\* added), an Add without an entry gives the added entry and (null, added),
\* a Rm of an entry gives nothing and (old, null), a Rm without an entry
\* gives nothing and no diff; no reported diff has two null sides
C29_ReconciliationTable ==
  (last.kind = "handleUpdate" /\ last.ev = "end")
    => LET node == last.args.node
           upd  == last.args.update
           res  == last.out
       IN /\ (upd.op = "add" /\ node # NoNode /\ node.m = upd.value.m)
               => (res.node = node /\ ~res.changed)
          /\ (upd.op = "add" /\ node # NoNode /\ node.m # upd.value.m)
               => (res.node = upd.value /\ res.changed /\ res.diff = <<node, upd.value>>)
          /\ (upd.op = "add" /\ node = NoNode)
               => (res.node = upd.value /\ res.changed /\ res.diff = <<NoNode, upd.value>>)
          /\ (upd.op = "rm" /\ node # NoNode)
               => (res.node = NoNode /\ res.changed /\ res.diff = <<node, NoNode>>)
          /\ (upd.op = "rm" /\ node = NoNode)
               => (res.node = NoNode /\ ~res.changed)
          /\ res.changed => res.diff # <<NoNode, NoNode>>

\* handleUpdate has returned from an Add over an entry with the same message
C29_Witness ==
  /\ last.kind = "handleUpdate" /\ last.ev = "end"
  /\ last.args.update.op = "add"
  /\ last.args.node = last.args.update.value
  /\ last.out.node = last.args.node

\* the leaf entry of a set of entries with this tuple, NoNode without one
EntryOf(S, t) == IF \E n \in S : n.t = t THEN CHOOSE n \in S : n.t = t ELSE NoNode

\* the changes a batch makes to the leaf entries of a tree: one diff for
\* every added entry that is new or has a new message and for every removed
\* tuple that had an entry
LeafChanges(before, b) ==
  {<<EntryOf(before, a.t), a>> : a \in {x \in b.add : EntryOf(before, x.t) # x}}
  \cup {<<EntryOf(before, t), NoNode>> :
          t \in {x \in b.rm : /\ EntryOf(before, x) # NoNode
                               /\ \A a \in b.add : a.t # x}}

\* C26: over a complete run of a mutation of a valid tree the node diffs
\* yielded are exactly the changes made to the leaf entries, each in one
\* yielded diff and once
C26_NodeDiffsAreLeafChanges ==
  (mu.pc = "done" /\ hist.valid)
    => /\ {hist.nodes[i] : i \in 1..Len(hist.nodes)} = LeafChanges(hist.before, hist.batch)
       /\ Len(hist.nodes) = Cardinality(LeafChanges(hist.before, hist.batch))

\* the buckets the running or last mutation call has reported as removed
YieldedRemoved ==
  hist.removed \o (IF mu.pc \in {"yield", "final"} THEN removedBuckets(mu.out) ELSE <<>>)

\* the half of C27 about tree shrinkage: a mutation that has ended with a
\* root below the level of the old root has reported as removed the buckets
\* of the old path above the level of the new root
C27_ShrinkReportsPath ==
  (mu.pc = "done" /\ root.level < mu.rootBefore.level)
    => \A k \in 1..Len(mu.cursor.buckets) :
         mu.cursor.buckets[k].level > root.level
           => \E i \in 1..Len(YieldedRemoved) : YieldedRemoved[i] = mu.cursor.buckets[k]

\* C27: in one mutation run no bucket is reported as removed twice, and a
\* run that ends with the new root below the level of the old root has
\* reported the buckets of the old path above the new root
C27_RemovedOnce ==
  /\ \A i, j \in 1..Len(YieldedRemoved) : i # j => YieldedRemoved[i] # YieldedRemoved[j]
  /\ C27_ShrinkReportsPath

\* the pending updates are in the order of their levels
QueueByLevel(us) ==
  \A k \in 1..(Len(us) - 1) : us[k].level <= us[k + 1].level

\* the pending updates of one level ascend strictly by tuple
QueueStrictInLevel(us) ==
  \A k \in 1..(Len(us) - 1) :
    us[k].level = us[k + 1].level => compareTuples(us[k].value, us[k + 1].value) < 0

\* C28: at the start of every iteration of the loop of mutateTree the pending
\* updates are sorted by level and, within a level, strictly ascending by
\* tuple
C28_QueueSorted ==
  (mu.pc = "loop" /\ loopGoesOn(mu))
    => QueueByLevel(mu.updts) /\ QueueStrictInLevel(mu.updts)

\* the pending updates of one level ascend by tuple, an update to remove a
\* tuple and an update to add it may follow each other
QueueAscendsInLevel(us) ==
  \A k \in 1..(Len(us) - 1) :
    us[k].level = us[k + 1].level => compareTuples(us[k].value, us[k + 1].value) <= 0

\* C28 without strictness: at the start of every iteration the pending
\* updates are sorted by level and, within a level, ascending by tuple
C28_QueueSortedByLevel ==
  (mu.pc = "loop" /\ loopGoesOn(mu))
    => QueueByLevel(mu.updts) /\ QueueAscendsInLevel(mu.updts)

\* an iteration starts with an update to remove and an update to add the
\* same tuple pending on a level above the leaves, below updates of a
\* greater tuple
C28_Witness ==
  /\ mu.pc = "loop" /\ loopGoesOn(mu) /\ mu.i > 0
  /\ \E k \in 1..(Len(mu.updts) - 2) :
       /\ mu.updts[k].level > 0
       /\ mu.updts[k].op = "rm" /\ mu.updts[k + 1].op = "add"
       /\ compareTuples(mu.updts[k].value, mu.updts[k + 1].value) = 0
       /\ compareTuples(mu.updts[k + 1].value, mu.updts[k + 2].value) < 0

\* the level processed never goes down from one iteration to the next
C28_LevelNeverDecreases ==
  [][(mu.pc = "loop" /\ mu'.pc \in {"yield", "loop", "final"} /\ mu.i > 0 /\ mu'.i = mu.i + 1)
       => mu'.level >= mu.level]_vars

\* a mutation of a tree that was not empty has left a bucket of two entries
\* that is not the head of its level
C13_Witness ==
  /\ Mutated
  /\ mu.rootBefore # createEmptyTree
  /\ \E b \in Reach : Len(b.nodes) >= 2 /\ ~IsHeadBucket(b)

\* ==================================================== properties of search
Stored(t) == {n \in hist.contents : n.t = t.t}

\* C6: search yields one result per requested tuple in ascending order: the
\* leaf entry stored under the tuple when there is one, the tuple otherwise.
C6_SearchResults ==
  /\ \A k \in 1..Len(sr.results) :
       sr.results[k] \in (IF Stored(sr.input[k]) = {} THEN {sr.input[k]}
                          ELSE Stored(sr.input[k]))
  /\ sr.pc = "done" => Len(sr.results) = Len(sr.input)

====
